---- MODULE Spec2Model ----
(***************************************************************************)
(* Remote theme deployment handlers of tyz-actions-access: the five route  *)
(* actions (create, delete, update, status, upload), the legacy status     *)
(* route (loader and action) and the shared session helper.  One request   *)
(* is handled at a time; every await of a handler is a step of its own, so *)
(* that the clock can advance between the steps.  `other` holds the locals  *)
(* of a second invocation that is suspended at one of its awaits: it stays *)
(* idle unless the two invocations are interleaved (SpecConcurrent).       *)
(*                                                                         *)
(* Strings are sequences of symbols: a store reference is spelled letter   *)
(* by letter (normalizeShopDomain works on letters), every other string is *)
(* a sequence of opaque chunks, <<>> being the empty string.               *)
(***************************************************************************)
EXTENDS Integers, Sequences, FiniteSets, TLC

VARIABLES db, now, pc, req, lookup, session, calls, replies, resp, other

vars == <<db, now, pc, req, lookup, session, calls, replies, resp, other>>

\* Bounds of the model.
MaxTime == 1
MaxErrors == 2
MaxTargets == 2
MaxParams == 2
MaxFiles == 2

---------------------------------------------------------------------------
\* Store references and normalizeShopDomain.

SchemeHttp == <<"h", "t", "t", "p", ":", "/", "/">>
SchemeHttps == <<"h", "t", "t", "p", "s", ":", "/", "/">>
SchemeUpper == <<"H", "T", "T", "P", "S", ":", "/", "/">>
Slash == <<"/">>

HostShop == <<"s", "h", "o", "p">>
HostShopCap == <<"S", "h", "o", "p">>
HostTop == <<"t", "o", "p">>

Schemes == {<<>>, SchemeHttp, SchemeHttps, SchemeUpper}

\* The store references a caller may send: one store under every scheme, with
\* a slash, capitalized, with two slashes; and another store.
ShopRefs ==
  {sc \o HostShop : sc \in Schemes} \cup
  {HostShop \o Slash, SchemeHttps \o HostShop \o Slash, HostShopCap,
   SchemeUpper \o HostShopCap \o Slash, HostShop \o Slash \o Slash, HostTop}

\* String.prototype.toLowerCase, letter by letter.
LowerChar(c) ==
  CASE c = "H" -> "h"
    [] c = "T" -> "t"
    [] c = "P" -> "p"
    [] c = "S" -> "s"
    [] c = "O" -> "o"
    [] OTHER -> c

ToLowerCase(s) == [i \in 1..Len(s) |-> LowerChar(s[i])]

StartsWith(s, p) == Len(s) >= Len(p) /\ SubSeq(s, 1, Len(p)) = p

\* .replace(/^https?:\/\//, ""): the pattern is case sensitive and anchored.
StripScheme(s) ==
  IF StartsWith(s, SchemeHttps) THEN SubSeq(s, Len(SchemeHttps) + 1, Len(s))
  ELSE IF StartsWith(s, SchemeHttp) THEN SubSeq(s, Len(SchemeHttp) + 1, Len(s))
  ELSE s

\* .replace(/\/$/, ""): one slash at the very end, no more.
StripTrailingSlash(s) ==
  IF Len(s) > 0 /\ s[Len(s)] = "/" THEN SubSeq(s, 1, Len(s) - 1) ELSE s

normalizeShopDomain(shop) == ToLowerCase(StripTrailingSlash(StripScheme(shop)))

---------------------------------------------------------------------------
\* The credential store (the session table) and its one query.

\* expires is {} for a session without expiry and {t} for one expiring at t.
SessionUniverse ==
  { [id |-> "s1", shop |-> HostShop, isOnline |-> FALSE, accessToken |-> "tokA", expires |-> {}],
    [id |-> "s2", shop |-> HostShop, isOnline |-> FALSE, accessToken |-> "tokB", expires |-> {0}],
    [id |-> "s3", shop |-> HostShop, isOnline |-> TRUE, accessToken |-> "tokC", expires |-> {MaxTime}] }

\* where: { shop: normalizedShop, isOnline: false }
WhereAnySession(rows, key) == {s \in rows : s.shop = key}

WhereOfflineSession(rows, key) == {s \in rows : s.shop = key /\ ~s.isOnline}

\* orderBy: { expires: "desc" }: a before b.  Where the rows without expiry
\* sort is the database's choice: first (nf) or last.
RanksBefore(a, b, nf) ==
  \/ a.expires = {} /\ b.expires # {} /\ nf
  \/ a.expires # {} /\ b.expires = {} /\ ~nf
  \/ \E ta \in a.expires : \E tb \in b.expires : ta > tb

\* findFirst: the rows that may come back first, under either choice; {} when
\* nothing matches.
FindFirst(rows, key) ==
  LET m == WhereOfflineSession(rows, key)
  IN {s \in m : \E nf \in BOOLEAN : \A o \in m : ~RanksBefore(o, s, nf)}

NeverExpired(s, t) == FALSE

\* session.expires && session.expires < new Date()
IsExpired(s, t) == \E e \in s.expires : e < t

---------------------------------------------------------------------------
\* JSON values of a request body and of a response body.

Absent == [t |-> "absent"]
JNull == [t |-> "null"]
JStr(s) == [t |-> "str", v |-> s]
JBool(b) == [t |-> "bool", v |-> b]
JArr(a) == [t |-> "arr", v |-> a]
JObj(o) == [t |-> "obj", v |-> o]

\* !x is false: neither undefined, null nor the empty string.
Truthy(x) == x.t \in {"arr", "obj"} \/ (x.t = "str" /\ x.v # <<>>) \/ (x.t = "bool" /\ x.v)

\* A response: the status and the JSON body, a record holding the keys whose
\* value is not undefined (JSON.stringify drops the others).
Response(status, body) == [status |-> status, body |-> body]

NoResponse == Response(0, <<>>)

\* An error string is a sequence of parts: a literal text of the source, a
\* string taken from elsewhere (a remote message, a response text), a number,
\* or the JSON.stringify of a value.
Lit(text) == [lit |-> text]
Str(x) == [str |-> x]
Num(n) == [num |-> n]
Json(x) == [json |-> x]
Raw(reply) == [raw |-> reply]

Msg(text) == <<Lit(text)>>

ErrorBody(e) == "error" :> e

Field(k, x) == IF x = Absent THEN <<>> ELSE k :> x

NoLookup == [done |-> FALSE, reads |-> 0, at |-> 0, key |-> <<>>, db |-> {}, found |-> {}]

NoSession == [shop |-> <<>>, accessToken |-> "", normalizedShop |-> <<>>]

NoBody ==
  [shop |-> Absent, themeId |-> Absent, source |-> Absent, name |-> Absent,
   files |-> Absent, fileData |-> Absent, filename |-> Absent, mimeType |-> Absent]

Request(op, method, isJson, body) ==
  [op |-> op, method |-> method, isJson |-> isJson, body |-> body]

NoRequest == Request("none", "POST", FALSE, NoBody)

\* What a caller may put under shop, and under any other text field.
ShopValues == {Absent, JStr(<<>>)} \cup {JStr(r) : r \in ShopRefs}
ThemeIdValues == {Absent, JStr(<<>>), JStr(<<"42">>), JStr(<<"7">>)}
TextValues == {Absent, JStr(<<>>), JStr(<<"text">>)}

\* The locals of an invocation that has not started.
IdleLocals ==
  [pc |-> "idle", req |-> NoRequest, lookup |-> NoLookup, session |-> NoSession,
   calls |-> <<>>, replies |-> <<>>, resp |-> NoResponse]

---------------------------------------------------------------------------
Init ==
  /\ db \in SUBSET SessionUniverse
  /\ now = 0
  /\ pc = "idle"
  /\ req = NoRequest
  /\ lookup = NoLookup
  /\ session = NoSession
  /\ calls = <<>>
  /\ replies = <<>>
  /\ resp = NoResponse
  /\ other = IdleLocals

\* Time passes (new Date() reads the wall clock).
Tick ==
  /\ now < MaxTime
  /\ now' = now + 1
  /\ UNCHANGED <<other, db, pc, req, lookup, session, calls, replies, resp>>

\* The session table is written by the app's installation flow, never by
\* these handlers: rows come and go.  A handler reads the table once, so a
\* change takes effect for the invocations that start after it.
StoreChanges ==
  /\ pc = "idle"
  /\ db' \in (SUBSET SessionUniverse) \ {db}
  /\ UNCHANGED <<other, now, pc, req, lookup, session, calls, replies, resp>>

\* The handler returns `r`.
Reply(r) == pc' = "done" /\ resp' = r

\* The handler goes on to its next step.
Goto(l) == pc' = l /\ resp' = resp

\* A request arrives at a route.
Arrive(r) ==
  /\ pc = "idle"
  /\ req' = r
  /\ UNCHANGED <<other, db, now, lookup, session, calls, replies>>

MethodUnchecked(r) == FALSE

\* The part every action shares: the method check and request.json().
NotPost(r) == r.method # "POST"
BadJson(r) == r.method = "POST" /\ ~r.isJson

MethodNotAllowed == Response(405, ErrorBody(Msg("Method not allowed")))
InvalidJson == Response(400, ErrorBody(Msg("Invalid JSON")))

\* The requests of a route whose body is never read, or does not parse.
Unread(op) == {Request(op, "GET", TRUE, NoBody), Request(op, "POST", FALSE, NoBody)}

---------------------------------------------------------------------------
\* The route actions: method check, request.json(), required fields.

Body(shop, themeId) == [NoBody EXCEPT !.shop = shop, !.themeId = themeId]

\* api.theme.create
CreateRequests ==
  Unread("create") \cup
  {Request("create", "POST", TRUE, [NoBody EXCEPT !.shop = sh, !.source = so, !.name = na]) :
     sh \in ShopValues, so \in TextValues, na \in TextValues}

CreateActionNameUnchecked ==
  \E r \in CreateRequests :
    /\ Arrive(r)
    /\ IF NotPost(r) THEN Reply(MethodNotAllowed)
       ELSE IF BadJson(r) THEN Reply(InvalidJson)
       ELSE IF ~Truthy(r.body.shop) \/ ~Truthy(r.body.source)
         THEN Reply(Response(400, ErrorBody(Msg("Missing required fields: shop, source, and name"))))
       ELSE Goto("verify")

CreateAction ==
  \E r \in CreateRequests :
    /\ Arrive(r)
    /\ IF NotPost(r) THEN Reply(MethodNotAllowed)
       ELSE IF BadJson(r) THEN Reply(InvalidJson)
       ELSE IF ~Truthy(r.body.shop) \/ ~Truthy(r.body.source) \/ ~Truthy(r.body.name)
         THEN Reply(Response(400, ErrorBody(Msg("Missing required fields: shop, source, and name"))))
       ELSE Goto("verify")

\* api.theme.delete
DeleteRequests ==
  Unread("delete") \cup
  {Request("delete", "POST", TRUE, Body(sh, id)) : sh \in ShopValues, id \in ThemeIdValues}

DeleteAction ==
  \E r \in DeleteRequests :
    /\ Arrive(r)
    /\ IF NotPost(r) THEN Reply(MethodNotAllowed)
       ELSE IF BadJson(r) THEN Reply(InvalidJson)
       ELSE IF ~Truthy(r.body.shop) \/ ~Truthy(r.body.themeId)
         THEN Reply(Response(400, ErrorBody(Msg("Missing required fields: shop and themeId"))))
       ELSE Goto("verify")

\* api.theme.status
StatusRequests ==
  Unread("status") \cup
  {Request("status", "POST", TRUE, Body(sh, id)) : sh \in ShopValues, id \in ThemeIdValues}

StatusAction ==
  \E r \in StatusRequests :
    /\ Arrive(r)
    /\ IF NotPost(r) THEN Reply(MethodNotAllowed)
       ELSE IF BadJson(r) THEN Reply(InvalidJson)
       ELSE IF ~Truthy(r.body.themeId) \/ ~Truthy(r.body.shop)
         THEN Reply(Response(400, ErrorBody(Msg("Missing required fields: themeId and shop"))))
       ELSE Goto("verify")

\* The legacy status route: its action (POST) ...
LegacyRequests ==
  Unread("legacy") \cup
  {Request("legacy", "POST", TRUE, Body(sh, id)) : sh \in ShopValues, id \in ThemeIdValues}

LegacyAction ==
  \E r \in LegacyRequests :
    /\ Arrive(r)
    /\ IF NotPost(r) THEN Reply(MethodNotAllowed)
       ELSE IF BadJson(r) THEN Reply(InvalidJson)
       ELSE IF ~Truthy(r.body.themeId) \/ ~Truthy(r.body.shop)
         THEN Reply(Response(400, ErrorBody(Msg("Missing required fields: themeId and shop"))))
       ELSE Goto("legacyLookup")

\* ... and its loader (GET): themeId and shop are query parameters, a missing
\* one reads as null.
LoaderRequests ==
  {Request("legacyGet", "GET", FALSE, Body(sh, id)) :
     sh \in (ShopValues \ {Absent}) \cup {JNull}, id \in (ThemeIdValues \ {Absent}) \cup {JNull}}

LegacyLoader ==
  \E r \in LoaderRequests :
    /\ Arrive(r)
    /\ IF ~Truthy(r.body.themeId) \/ ~Truthy(r.body.shop)
         THEN Reply(Response(400, ErrorBody(Msg("Missing required parameters: themeId and shop"))))
       ELSE Goto("legacyLookup")

\* api.file.upload
DataUrlPrefix == "data:application/zip;base64,"

FileDataValues ==
  {Absent, JStr(<<>>), JStr(<<"QUJD">>), JStr(<<DataUrlPrefix, "QUJD">>), JArr(<<>>)}

UploadRequests ==
  Unread("upload") \cup
  {Request("upload", "POST", TRUE,
           [NoBody EXCEPT !.shop = sh, !.fileData = fd, !.filename = nm[1], !.mimeType = nm[2]]) :
     sh \in ShopValues, fd \in FileDataValues,
     nm \in {<<Absent, Absent>>, <<JStr(<<"theme.zip">>), JStr(<<"application/gzip">>)>>}}

UploadAction ==
  \E r \in UploadRequests :
    /\ Arrive(r)
    /\ IF NotPost(r) THEN Reply(MethodNotAllowed)
       ELSE IF BadJson(r) THEN Reply(InvalidJson)
       ELSE IF ~Truthy(r.body.shop) \/ ~Truthy(r.body.fileData)
         THEN Reply(Response(400, ErrorBody(Msg("Missing required fields: shop and fileData"))))
       ELSE Goto("verify")

\* api.theme.update
FileObj(filename, content, encoding) ==
  JObj([filename |-> filename, content |-> content, encoding |-> encoding])

TextFile == FileObj(JStr(<<"a.liquid">>), JStr(<<"text">>), Absent)
Base64File == FileObj(JStr(<<"b.png">>), JStr(<<"QUJD">>), JStr(<<"base64">>))

FileEntries ==
  { TextFile, Base64File,
    FileObj(JStr(<<>>), JStr(<<"text">>), Absent),
    FileObj(Absent, JStr(<<"text">>), Absent),
    FileObj(JStr(<<"a.liquid">>), Absent, Absent),
    JNull }

FileLists == UNION {[1..n -> FileEntries] : n \in 0..MaxFiles}

FilesValues == {Absent, JNull, JStr(<<"a.liquid">>)} \cup {JArr(l) : l \in FileLists}

\* Reading file.filename of a null entry throws a TypeError.
EntryThrows(file) == file.t = "null"

\* !file.filename || file.content === undefined
EntryRejected(file) == ~Truthy(file.v.filename) \/ file.v.content = Absent

\* The validation loop stops at the first entry that throws or is rejected:
\* its index, 0 when every entry passes.
FirstOffender(list) ==
  LET bad == {i \in 1..Len(list) : EntryThrows(list[i]) \/ EntryRejected(list[i])}
  IN IF bad = {} THEN 0 ELSE CHOOSE i \in bad : \A j \in bad : i <= j

\* Every shop with a well-formed list, every list with a well-formed shop,
\* and the rename: a name and no list.
UpdateRequests ==
  Unread("update") \cup
  {Request("update", "POST", TRUE, [Body(sh, id) EXCEPT !.files = f]) :
     sh \in ShopValues, id \in ThemeIdValues,
     f \in {Absent, JArr(<<>>), JArr(<<TextFile>>), JArr(<<Base64File, TextFile>>)}} \cup
  {Request("update", "POST", TRUE, [Body(sh, id) EXCEPT !.files = f]) :
     sh \in {Absent, JStr(HostShop)}, id \in ThemeIdValues, f \in FilesValues} \cup
  {Request("update", "POST", TRUE, [Body(JStr(HostShop), id) EXCEPT !.name = JStr(<<"text">>)]) :
     id \in ThemeIdValues}

UpdateAction ==
  \E r \in UpdateRequests :
    /\ Arrive(r)
    /\ IF NotPost(r) THEN Reply(MethodNotAllowed)
       ELSE IF BadJson(r) THEN Reply(InvalidJson)
       ELSE IF ~Truthy(r.body.shop) \/ ~Truthy(r.body.themeId) \/ ~Truthy(r.body.files)
         THEN Reply(Response(400, ErrorBody(Msg("Missing required fields: shop, themeId, and files"))))
       ELSE IF r.body.files.t # "arr" \/ Len(r.body.files.v) = 0
         THEN Reply(Response(400, ErrorBody(Msg("files must be a non-empty array"))))
       ELSE LET i == FirstOffender(r.body.files.v) IN
         IF i = 0 THEN Goto("verify")
         ELSE IF EntryThrows(r.body.files.v[i])
           THEN Reply(Response(500, ErrorBody(Msg("Failed to update theme files"))))
         ELSE Reply(Response(400, ErrorBody(Msg("Each file must have 'filename' and 'content' fields"))))

---------------------------------------------------------------------------
\* Credential resolution.

SessionFailure(error, status) == [success |-> FALSE, error |-> [error |-> error, status |-> status]]

SessionSuccess(row, normalizedShop) ==
  [success |-> TRUE,
   session |-> [shop |-> row.shop, accessToken |-> row.accessToken, normalizedShop |-> normalizedShop]]

NoSessionFound == Msg("No session found for shop. Please install the app first.")
SessionExpired == Msg("Session expired. Please reinstall the app.")

NotInstalled == SessionFailure(NoSessionFound, 404)
Expired == SessionFailure(SessionExpired, 401)

\* session.server verifyShopSession, after findFirst returned `found`
\* ({} for null, {row} otherwise) at time t.
VerifyResult(found, normalizedShop, t) ==
  IF found = {} THEN NotInstalled
  ELSE LET row == CHOOSE s \in found : TRUE IN
    IF IsExpired(row, t) THEN Expired
    ELSE SessionSuccess(row, normalizedShop)

LookupTwice(key, found) ==
  [done |-> TRUE, reads |-> lookup.reads + 2, at |-> now, key |-> key, db |-> db, found |-> found]

\* What the database read leaves behind: how many reads were made, when,
\* under which key, on which table, and the row that came back.
Lookup(key, found) ==
  [done |-> TRUE, reads |-> lookup.reads + 1, at |-> now, key |-> key, db |-> db, found |-> found]

SessionFailed(r) ==
  IF req.op = "status"
    THEN Response(r.error.status, ErrorBody(r.error.error) @@ ("processing" :> JNull))
  ELSE IF req.op = "upload"
    THEN Response(r.error.status, ErrorBody(r.error.error) @@ ("resourceUrl" :> JNull))
  ELSE Response(r.error.status, ErrorBody(r.error.error))

\* Every handler but the legacy one starts with verifyShopSession(shop).
VerifyShopSession ==
  /\ pc = "verify"
  /\ LET key == normalizeShopDomain(req.body.shop.v) IN
     \E found \in {{}} \cup {{s} : s \in FindFirst(db, key)} :
       /\ found = {} <=> FindFirst(db, key) = {}
       /\ lookup' = Lookup(key, found)
       /\ LET r == VerifyResult(found, key, now) IN
          IF r.success
            THEN /\ session' = r.session
                 /\ Goto("send")
            ELSE /\ session' = session
                 /\ Reply(SessionFailed(r))
  /\ UNCHANGED <<other, db, now, req, calls, replies>>

\* The legacy handler normalizes, reads and checks inline.
LegacyLookup ==
  /\ pc = "legacyLookup"
  /\ LET key == ToLowerCase(StripTrailingSlash(StripScheme(req.body.shop.v))) IN
     \E found \in {{}} \cup {{s} : s \in FindFirst(db, key)} :
       /\ found = {} <=> FindFirst(db, key) = {}
       /\ lookup' = Lookup(key, found)
       /\ IF found = {}
            THEN /\ session' = session
                 /\ Reply(Response(404, ErrorBody(NoSessionFound)
                                        @@ ("processing" :> JNull)))
          ELSE LET row == CHOOSE s \in found : TRUE IN
            IF \E e \in row.expires : e < now
              THEN /\ session' = session
                   /\ Reply(Response(401, ErrorBody(SessionExpired)
                                          @@ ("processing" :> JNull)))
            ELSE /\ session' = [shop |-> row.shop, accessToken |-> row.accessToken, normalizedShop |-> key]
                 /\ Goto("send")
  /\ UNCHANGED <<other, db, now, req, calls, replies>>

---------------------------------------------------------------------------
\* The remote platform: what a fetch may come back with.

\* fetch rejects (connection refused, timeout, abort).
Thrown == [kind |-> "throws", message |-> <<"fetch failed">>]

\* An HTTP response whose body is not JSON.
TextReply(status) == [kind |-> "text", status |-> status, text |-> <<"<html>">>]

\* An HTTP response with a JSON body { errors?, data?: { <root>? } }.
JsonReply(status, errors, root) ==
  [kind |-> "json", status |-> status, errors |-> errors, root |-> root]

\* The root field of a mutation: userErrors (or none) and the payload.
Root(hasUserErrors, userErrors, payload) ==
  [t |-> "obj", hasUserErrors |-> hasUserErrors, userErrors |-> userErrors, payload |-> payload]

AnyStatusOk(reply) == TRUE

\* response.ok
Ok(reply) == reply.status \in 200..299

Statuses == {200, 503}
OkStatuses == {st \in Statuses : st \in 200..299}

ErrorAt(i) == [message |-> <<"error", i>>]
UserErrorAt(i) == [field |-> <<"input", i>>, message |-> <<"invalid", i>>]

ErrorLists == {[i \in 1..n |-> ErrorAt(i)] : n \in 0..MaxErrors}
UserErrorLists == {[i \in 1..n |-> UserErrorAt(i)] : n \in 0..MaxErrors}

\* The root fields of a success status: none; one with userErrors, and the
\* payload that comes with them; one without userErrors, and its payload;
\* one that lacks the userErrors key.
Roots(payloads, rejected) ==
  {Absent} \cup
  {Root(TRUE, ue, rejected) : ue \in UserErrorLists \ {<<>>}} \cup
  {Root(TRUE, <<>>, p) : p \in payloads} \cup
  {Root(FALSE, <<>>, JNull)}

\* The root field under a status that is no success: none, or one with userErrors.
RootsOfFailure == {Absent, Root(TRUE, <<UserErrorAt(1)>>, JNull)}

GraphqlReplies(payloads, rejected) ==
  {Thrown} \cup {TextReply(st) : st \in Statuses} \cup
  {JsonReply(st, errs, root) : st \in OkStatuses, errs \in ErrorLists, root \in Roots(payloads, rejected)} \cup
  {JsonReply(st, errs, root) : st \in Statuses \ OkStatuses, errs \in ErrorLists, root \in RootsOfFailure}

ThemeGid == <<"gid://shopify/OnlineStoreTheme/", "42">>

CreatePayloads == {JNull, JObj([id |-> JStr(ThemeGid), name |-> JStr(<<"text">>)])}
DeletePayloads == {Absent, JStr(ThemeGid)}
UpdatePayloads == {Absent, JArr(<<[filename |-> JStr(<<"a.liquid">>)], [filename |-> JStr(<<"b.png">>)]>>)}

---------------------------------------------------------------------------
\* The GraphQL call of a handler, and what the handler makes of the answer.

GraphqlUrl(normalizedShop) ==
  [scheme |-> "https://", host |-> normalizedShop, path |-> "/admin/api/${apiVersion}/graphql.json"]

GraphqlCall(root, variables) ==
  [kind |-> "graphql", method |-> "POST", url |-> GraphqlUrl(session.normalizedShop),
   token |-> session.accessToken, root |-> root, variables |-> variables]

RawId(themeId) == themeId

\* `gid://shopify/OnlineStoreTheme/${themeId}`
Gid(themeId) == <<"gid://shopify/OnlineStoreTheme/">> \o themeId

FetchTwice(op, call) ==
  /\ pc = "send"
  /\ req.op = op
  /\ calls' = Append(Append(calls, call), call)
  /\ Goto("wait")
  /\ UNCHANGED <<other, db, now, req, lookup, session, replies>>

\* await fetch(graphqlUrl, ...): the request leaves.
Fetch(op, call) ==
  /\ pc = "send"
  /\ req.op = op
  /\ calls' = Append(calls, call)
  /\ Goto("wait")
  /\ UNCHANGED <<other, db, now, req, lookup, session, replies>>

\* The answer arrives and the handler returns `r`.
Receive(op, reply, r) ==
  /\ pc = "wait"
  /\ req.op = op
  /\ replies' = Append(replies, reply)
  /\ Reply(r)
  /\ UNCHANGED <<other, db, now, req, lookup, session, calls>>

CaughtUnknown(message) == Response(500, ErrorBody(Msg("Unknown error")))

\* err instanceof Error ? err.message : "Unknown error"
Caught(message) == Response(500, ErrorBody(message))

JsonSyntaxError == <<Lit("Unexpected token < in JSON at position 0")>>
LengthOfUndefined == <<Lit("Cannot read properties of undefined (reading 'length')")>>

FirstErrorMessageNoDefault(reply) ==
  IF Len(reply.errors) > 0 THEN <<Str(reply.errors[1].message)>> ELSE <<>>

\* data.errors?.[0]?.message || "GraphQL request failed"
FirstErrorMessage(reply) ==
  IF Len(reply.errors) > 0 THEN <<Str(reply.errors[1].message)>>
  ELSE Msg("GraphQL request failed")

UserErrorsFirstOnly(what, userErrors) ==
  Response(400, ErrorBody(<<Lit(what), Json(userErrors)>>) @@ ("userErrors" :> <<userErrors[1]>>))

\* The 400 of a mutation whose root field carries userErrors.
UserErrorsResponse(what, userErrors) ==
  Response(400, ErrorBody(<<Lit(what), Json(userErrors)>>) @@ ("userErrors" :> userErrors))

MutationResponseIgnoringUserErrors(reply, rootName, what, success) ==
  IF reply.kind = "throws" THEN Caught(<<Str(reply.message)>>)
  ELSE IF reply.kind = "text" THEN Caught(JsonSyntaxError)
  ELSE IF ~Ok(reply) THEN Response(reply.status, ErrorBody(FirstErrorMessage(reply)))
  ELSE IF reply.root = Absent THEN Response(500, ErrorBody(<<Lit(rootName), Lit(" missing in response")>>))
  ELSE success

\* The part createTheme, deleteTheme and updateThemeFiles share, from the
\* fetch to the userErrors check; `success` is the 200 of the handler.
MutationResponse(reply, rootName, what, success) ==
  IF reply.kind = "throws" THEN Caught(<<Str(reply.message)>>)
  ELSE IF reply.kind = "text" THEN Caught(JsonSyntaxError)
  ELSE IF ~Ok(reply) THEN Response(reply.status, ErrorBody(FirstErrorMessage(reply)))
  ELSE IF reply.root = Absent THEN Response(500, ErrorBody(<<Lit(rootName), Lit(" missing in response")>>))
  ELSE IF ~reply.root.hasUserErrors THEN Caught(LengthOfUndefined)
  ELSE IF Len(reply.root.userErrors) > 0 THEN UserErrorsResponse(what, reply.root.userErrors)
  ELSE success

\* createTheme
CreateThemeFetch ==
  Fetch("create", GraphqlCall("themeCreate", [name |-> req.body.name.v, source |-> req.body.source.v]))

\* theme: themeCreate.theme ? { id, name } : undefined
ThemeOf(theme) ==
  IF theme.t = "obj" THEN JObj([id |-> theme.v.id, name |-> theme.v.name]) ELSE Absent

CreateThemeResponse(reply) ==
  MutationResponse(reply, "themeCreate", "Failed to create theme: ",
    Response(200, Field("theme", ThemeOf(reply.root.payload))))

CreateThemeReceive ==
  \E reply \in GraphqlReplies(CreatePayloads, JNull) : Receive("create", reply, CreateThemeResponse(reply))

\* deleteTheme
DeleteThemeFetch ==
  Fetch("delete", GraphqlCall("themeDelete", [id |-> Gid(req.body.themeId.v)]))

DeleteThemeResponse(reply) ==
  MutationResponse(reply, "themeDelete", "Failed to delete theme: ",
    Response(200, Field("deletedThemeId", reply.root.payload)))

DeleteThemeReceive ==
  \E reply \in GraphqlReplies(DeletePayloads, JNull) : Receive("delete", reply, DeleteThemeResponse(reply))

\* updateThemeFiles
FilesInput(files) ==
  [i \in 1..Len(files) |->
     [filename |-> files[i].v.filename.v,
      body |-> [type |-> IF files[i].v.encoding = JStr(<<"base64">>) THEN "BASE64" ELSE "TEXT",
                value |-> files[i].v.content.v]]]

UpdateThemeFilesFetch ==
  Fetch("update", GraphqlCall("themeFilesUpsert",
          [themeId |-> Gid(req.body.themeId.v), files |-> FilesInput(req.body.files.v)]))

\* upsertedThemeFiles?.map((file) => ({ filename: file.filename }))
UpsertedFiles(upserted) ==
  IF upserted = Absent THEN Absent
  ELSE JArr([i \in 1..Len(upserted.v) |-> [filename |-> upserted.v[i].filename]])

UpdateThemeFilesResponse(reply) ==
  MutationResponse(reply, "themeFilesUpsert", "Failed to update theme files: ",
    Response(200, Field("upsertedFiles", UpsertedFiles(reply.root.payload))))

UpdateThemeFilesReceive ==
  \E reply \in GraphqlReplies(UpdatePayloads, JNull) : Receive("update", reply, UpdateThemeFilesResponse(reply))

\* getThemeStatus (api.theme.status)
StatusPayloads == {JBool(TRUE), JBool(FALSE), JNull}

StatusReplies ==
  {Thrown} \cup {TextReply(st) : st \in Statuses} \cup
  {JsonReply(st, errs, root) :
     st \in OkStatuses, errs \in ErrorLists,
     root \in {Absent} \cup {Root(FALSE, <<>>, p) : p \in StatusPayloads}} \cup
  {JsonReply(st, errs, Absent) : st \in Statuses \ OkStatuses, errs \in ErrorLists}

WithProcessing(error) == ErrorBody(error) @@ ("processing" :> JNull)

GetThemeStatusFetch ==
  Fetch("status", GraphqlCall("theme", [id |-> Gid(req.body.themeId.v)]))

\* data.data?.theme?.processing ?? null
Processing(reply) == IF reply.root = Absent THEN JNull ELSE reply.root.payload

GetThemeStatusResponse(reply) ==
  IF reply.kind = "throws" THEN Response(500, WithProcessing(<<Str(reply.message)>>))
  ELSE IF reply.kind = "text" THEN Response(500, WithProcessing(JsonSyntaxError))
  ELSE IF ~Ok(reply) THEN Response(reply.status, WithProcessing(FirstErrorMessage(reply)))
  ELSE Response(200, "processing" :> Processing(reply))

GetThemeStatusReceive ==
  \E reply \in StatusReplies : Receive("status", reply, GetThemeStatusResponse(reply))

LegacyStatusAs500(reply) ==
  IF reply.kind = "throws" THEN Response(500, WithProcessing(<<Str(reply.message)>>))
  ELSE IF reply.kind = "text" THEN Response(500, WithProcessing(JsonSyntaxError))
  ELSE IF ~Ok(reply) THEN Response(500, WithProcessing(FirstErrorMessage(reply)))
  ELSE Response(200, "processing" :> (IF reply.root = Absent THEN JNull ELSE reply.root.payload))

\* getThemeStatus of the legacy route, reached from its action and its loader.
LegacyOps == {"legacy", "legacyGet"}

LegacyGetThemeStatusFetch ==
  \E op \in LegacyOps :
    Fetch(op, [kind |-> "graphql", method |-> "POST", url |-> GraphqlUrl(session.normalizedShop),
               token |-> session.accessToken, root |-> "theme",
               variables |-> [id |-> <<"gid://shopify/OnlineStoreTheme/">> \o req.body.themeId.v]])

LegacyGetThemeStatusResponse(reply) ==
  IF reply.kind = "throws" THEN Response(500, WithProcessing(<<Str(reply.message)>>))
  ELSE IF reply.kind = "text" THEN Response(500, WithProcessing(JsonSyntaxError))
  ELSE IF ~Ok(reply)
    THEN Response(reply.status,
           WithProcessing(IF Len(reply.errors) > 0 THEN <<Str(reply.errors[1].message)>>
                          ELSE Msg("GraphQL request failed")))
  ELSE Response(200, "processing" :> (IF reply.root = Absent THEN JNull ELSE reply.root.payload))

LegacyGetThemeStatusReceive ==
  \E op \in LegacyOps : \E reply \in StatusReplies :
    Receive(op, reply, LegacyGetThemeStatusResponse(reply))

---------------------------------------------------------------------------
\* uploadFile: the stage request, then the transfer to the staged target.

ParamAt(i) == [name |-> <<"param", i>>, value |-> <<"value", i>>]
Parameters == [i \in 1..MaxParams |-> ParamAt(i)]

TargetAt(i) ==
  [resourceUrl |-> <<"resource", i>>, url |-> <<"upload", i>>, parameters |-> Parameters]

StagedTargetLists ==
  {[i \in 1..n |-> TargetAt(i)] : n \in 0..MaxTargets} \cup {<<TargetAt(MaxTargets)>>}

\* stagedTargets: missing, or a list.
UploadPayloads == {Absent} \cup {JArr(l) : l \in StagedTargetLists}

TransferStatuses == {204, 403}
TransferReplies == {Thrown} \cup {TextReply(st) : st \in TransferStatuses}

WithResourceUrl(error) == ErrorBody(error) @@ ("resourceUrl" :> JNull)

\* fileData.replace(/^data:.*,/, "")
Base64Data(fileData) ==
  IF Len(fileData) > 0 /\ Head(fileData) = DataUrlPrefix THEN Tail(fileData) ELSE fileData

\* filename || `theme-${Date.now()}.zip`
FinalFilename(filename, t) ==
  IF Truthy(filename) THEN filename.v ELSE <<"theme-", t, ".zip">>

\* mimeType = "application/zip" for an undefined mimeType
MimeType(mimeType) == IF mimeType = Absent THEN <<"application/zip">> ELSE mimeType.v

StagedUploadInput ==
  [filename |-> FinalFilename(req.body.filename, now),
   mimeType |-> MimeType(req.body.mimeType),
   fileSize |-> [lengthOf |-> Base64Data(req.body.fileData.v)],
   resource |-> "FILE",
   httpMethod |-> "POST"]

\* From the session to the stage request; fileData that is no string has no
\* replace method, which the handler answers with a 400.
UploadFileStage ==
  /\ pc = "send"
  /\ req.op = "upload"
  /\ IF req.body.fileData.t # "str"
       THEN /\ Reply(Response(400, WithResourceUrl(Msg("Invalid file data. Expected base64 encoded string."))))
            /\ calls' = calls
       ELSE /\ calls' = Append(calls, GraphqlCall("stagedUploadsCreate", [input |-> <<StagedUploadInput>>]))
            /\ Goto("wait")
  /\ UNCHANGED <<other, db, now, req, lookup, session, replies>>

FormFileFirst(target, input, fileData) ==
  <<[name |-> <<"file">>,
     value |-> [blob |-> Base64Data(fileData), type |-> input.mimeType, filename |-> input.filename]]>>
  \o target.parameters

\* The multipart form: the parameters of the target, then the file.
FormData(target, input, fileData) ==
  target.parameters \o
  <<[name |-> <<"file">>,
     value |-> [blob |-> Base64Data(fileData), type |-> input.mimeType, filename |-> input.filename]]>>

TransferCall(target, input, fileData) ==
  [kind |-> "upload", method |-> "POST", url |-> target.url, form |-> FormData(target, input, fileData)]

NoTargetAsUserErrors ==
  Response(500, WithResourceUrl(<<Lit("Failed to create staged upload: "), Json(<<>>)>>))

\* The 500 returned when stagedTargets[0] is missing.
NoTargetResponse == Response(500, WithResourceUrl(Msg("Failed to get staged upload target")))

StageFailureIgnoringErrors(reply) ==
  IF reply.kind = "throws" THEN Response(500, WithResourceUrl(<<Str(reply.message)>>))
  ELSE IF ~Ok(reply)
    THEN Response(500, WithResourceUrl(<<Lit("stagedUploadsCreate failed: "), Num(reply.status), Raw(reply)>>))
  ELSE IF reply.kind = "text" THEN Response(500, WithResourceUrl(JsonSyntaxError))
  ELSE IF reply.root = Absent
    THEN Response(500, WithResourceUrl(Msg("stagedUploadsCreate missing in response")))
  ELSE IF ~reply.root.hasUserErrors THEN Response(500, WithResourceUrl(LengthOfUndefined))
  ELSE IF Len(reply.root.userErrors) > 0
    THEN Response(500, WithResourceUrl(<<Lit("Failed to create staged upload: "), Json(reply.root.userErrors)>>))
  ELSE IF reply.root.payload = Absent
    THEN Response(500, WithResourceUrl(Msg("Cannot read properties of undefined (reading '0')")))
  ELSE IF Len(reply.root.payload.v) = 0 THEN NoTargetResponse
  ELSE NoResponse

\* How the stage answer ends the invocation; NoResponse when it does not.
StageFailure(reply) ==
  IF reply.kind = "throws" THEN Response(500, WithResourceUrl(<<Str(reply.message)>>))
  ELSE IF ~Ok(reply)
    THEN Response(500, WithResourceUrl(<<Lit("stagedUploadsCreate failed: "), Num(reply.status), Raw(reply)>>))
  ELSE IF reply.kind = "text" THEN Response(500, WithResourceUrl(JsonSyntaxError))
  ELSE IF Len(reply.errors) > 0
    THEN Response(500, WithResourceUrl(<<Lit("Failed to create staged upload (top-level errors): "), Json(reply.errors)>>))
  ELSE IF reply.root = Absent
    THEN Response(500, WithResourceUrl(Msg("stagedUploadsCreate missing in response")))
  ELSE IF ~reply.root.hasUserErrors THEN Response(500, WithResourceUrl(LengthOfUndefined))
  ELSE IF Len(reply.root.userErrors) > 0
    THEN Response(500, WithResourceUrl(<<Lit("Failed to create staged upload: "), Json(reply.root.userErrors)>>))
  ELSE IF reply.root.payload = Absent
    THEN Response(500, WithResourceUrl(Msg("Cannot read properties of undefined (reading '0')")))
  ELSE IF Len(reply.root.payload.v) = 0 THEN NoTargetResponse
  ELSE NoResponse

LastTarget(reply) == reply.root.payload.v[Len(reply.root.payload.v)]

SharedTarget(reply) ==
  IF Len(other.replies) >= 1 /\ other.req.op = "upload" /\ StageFailure(other.replies[1]) = NoResponse
    THEN other.replies[1].root.payload.v[1]
  ELSE reply.root.payload.v[1]

\* stagedCreate.stagedTargets[0]
StagedTarget(reply) == reply.root.payload.v[1]

\* The stage answer arrives; with a target the transfer leaves at once.
UploadFileStaged ==
  /\ pc = "wait"
  /\ req.op = "upload"
  /\ \E reply \in GraphqlReplies(UploadPayloads, JArr(<<>>)) :
       /\ replies' = Append(replies, reply)
       /\ IF StageFailure(reply) # NoResponse
            THEN /\ Reply(StageFailure(reply))
                 /\ calls' = calls
            ELSE /\ calls' = Append(calls,
                       TransferCall(StagedTarget(reply), calls[1].variables.input[1], req.body.fileData.v))
                 /\ Goto("transfer")
  /\ UNCHANGED <<other, db, now, req, lookup, session>>

\* The transfer is answered.
UploadFileTransferred ==
  /\ pc = "transfer"
  /\ \E reply \in TransferReplies :
       /\ replies' = Append(replies, reply)
       /\ IF reply.kind = "throws" THEN Reply(Response(500, WithResourceUrl(<<Str(reply.message)>>)))
          ELSE IF ~Ok(reply)
            THEN Reply(Response(500, WithResourceUrl(
                   <<Lit("Failed to upload file to staged upload URL: "), Num(reply.status), Str(reply.text)>>)))
          ELSE Reply(Response(200, "resourceUrl" :> JStr(StagedTarget(replies[1]).resourceUrl)))
  /\ UNCHANGED <<other, db, now, req, lookup, session, calls>>

\* The response has been delivered; the next request may arrive.
Return ==
  /\ pc = "done"
  /\ pc' = "idle"
  /\ req' = NoRequest
  /\ lookup' = NoLookup
  /\ session' = NoSession
  /\ calls' = <<>>
  /\ replies' = <<>>
  /\ resp' = NoResponse
  /\ UNCHANGED <<other, db, now>>

Next ==
  \/ Tick
  \/ StoreChanges
  \/ CreateAction
  \/ DeleteAction
  \/ UpdateAction
  \/ StatusAction
  \/ LegacyAction
  \/ LegacyLoader
  \/ UploadAction
  \/ VerifyShopSession
  \/ LegacyLookup
  \/ CreateThemeFetch
  \/ CreateThemeReceive
  \/ DeleteThemeFetch
  \/ DeleteThemeReceive
  \/ UpdateThemeFilesFetch
  \/ UpdateThemeFilesReceive
  \/ GetThemeStatusFetch
  \/ GetThemeStatusReceive
  \/ LegacyGetThemeStatusFetch
  \/ LegacyGetThemeStatusReceive
  \/ UploadFileStage
  \/ UploadFileStaged
  \/ UploadFileTransferred
  \/ Return

Spec == Init /\ [][Next]_vars

---------------------------------------------------------------------------
\* Two invocations in flight.  A handler is an async function: at each await
\* the event loop may run the continuation of another invocation, so the
\* steps of the two interleave in every order.

\* The locals of the invocation that is running.
Locals ==
  [pc |-> pc, req |-> req, lookup |-> lookup, session |-> session,
   calls |-> calls, replies |-> replies, resp |-> resp]

\* The running invocation is suspended and the other one resumed.
Switch ==
  /\ other # Locals
  /\ other' = Locals
  /\ pc' = other.pc
  /\ req' = other.req
  /\ lookup' = other.lookup
  /\ session' = other.session
  /\ calls' = other.calls
  /\ replies' = other.replies
  /\ resp' = other.resp
  /\ UNCHANGED <<db, now>>

\* The requests and the answers of the interleaved runs: uploads and status
\* requests (current route, legacy action, legacy loader) of one store under
\* two spellings, a table of offline sessions, a
\* remote that throws, refuses, or answers cleanly with one of two targets.
ConcurrentOps == {"none", "upload", "status", "legacy", "legacyGet"}

ConcurrentRequest(r) ==
  /\ r.op \in ConcurrentOps
  /\ r.body.shop \in {Absent, JStr(<<>>), JStr(HostShop), JStr(HostShopCap)}
  /\ r.body.themeId \in {Absent, JStr(<<"42">>)}
  /\ r.body.fileData \in {Absent, JStr(<<"QUJD">>)}
  /\ r.body.filename = Absent

ConcurrentReply(r) ==
  \/ r.kind = "throws"
  \/ r.kind = "text" /\ r.status \in TransferStatuses
  \/ /\ r.kind = "json"
     /\ \/ r.status = 503 /\ r.errors = <<ErrorAt(1)>> /\ r.root = Absent
        \/ /\ r.status = 200
           /\ r.errors = <<>>
           /\ r.root \in {Root(FALSE, <<>>, JBool(TRUE)),
                           Root(TRUE, <<>>, JArr(<<TargetAt(1)>>)),
                           Root(TRUE, <<>>, JArr(<<TargetAt(MaxTargets)>>))}

Narrow ==
  /\ ConcurrentRequest(req)
  /\ \A i \in 1..Len(replies) : ConcurrentReply(replies[i])

InitConcurrent ==
  /\ Init
  /\ \A s \in db : ~s.isOnline

NextConcurrent ==
  \/ Tick
  \/ Switch
  \/ UploadAction /\ Narrow'
  \/ StatusAction /\ Narrow'
  \/ LegacyAction /\ Narrow'
  \/ LegacyLoader /\ Narrow'
  \/ VerifyShopSession
  \/ LegacyLookup
  \/ GetThemeStatusFetch
  \/ GetThemeStatusReceive /\ Narrow'
  \/ LegacyGetThemeStatusFetch
  \/ LegacyGetThemeStatusReceive /\ Narrow'
  \/ UploadFileStage
  \/ UploadFileStaged /\ Narrow'
  \/ UploadFileTransferred /\ Narrow'
  \/ Return

SpecConcurrent == InitConcurrent /\ [][NextConcurrent]_vars

\* The steps of a handler past its route action: each is the continuation of
\* an await, which the event loop runs once the awaited read or answer is in.
HandlerStep ==
  \/ VerifyShopSession
  \/ LegacyLookup
  \/ CreateThemeFetch
  \/ CreateThemeReceive
  \/ DeleteThemeFetch
  \/ DeleteThemeReceive
  \/ UpdateThemeFilesFetch
  \/ UpdateThemeFilesReceive
  \/ GetThemeStatusFetch
  \/ GetThemeStatusReceive
  \/ LegacyGetThemeStatusFetch
  \/ LegacyGetThemeStatusReceive
  \/ UploadFileStage
  \/ UploadFileStaged
  \/ UploadFileTransferred

---------------------------------------------------------------------------
\* Properties.

StatusOps == {"status", "legacy", "legacyGet"}

\* The row the lookup returned had expired when it was read.
SelectedExpired == \E s \in lookup.found : \E e \in s.expires : e < lookup.at

\* C1: whenever the credential selected for the store has an expiry in the
\* past at resolution time, the invocation has ended with status 401 and the
\* error "Session expired. Please reinstall the app.", and no network call
\* (GraphQL request or transfer) has been issued by it; this for every
\* operation, the legacy status route included.
C1_ExpiredCredentialFails ==
  SelectedExpired =>
    /\ pc = "done"
    /\ resp.status = 401
    /\ resp.body.error = SessionExpired
    /\ calls = <<>>
    /\ replies = <<>>

C1_Witness ==
  /\ SelectedExpired
  /\ pc = "done"
  /\ req.op = "upload"
  /\ resp.status = 401

\* The table read by the lookup held no offline session under the key.
NoOfflineSession ==
  /\ lookup.done
  /\ ~\E s \in lookup.db : s.shop = lookup.key /\ s.isOnline = FALSE

\* C2: whenever the credential store holds no non-interactive (offline)
\* credential under the normalized store id, the invocation has ended with
\* status 404 and the error "No session found for shop. Please install the
\* app first.", without any network call; the status routes also answer
\* processing = null.
C2_NotInstalledFails ==
  NoOfflineSession =>
    /\ pc = "done"
    /\ resp.status = 404
    /\ resp.body.error = NoSessionFound
    /\ calls = <<>>
    /\ replies = <<>>
    /\ req.op \in StatusOps => "processing" \in DOMAIN resp.body /\ resp.body.processing = JNull

C2_Witness ==
  /\ NoOfflineSession
  /\ \E s \in lookup.db : s.shop = lookup.key /\ s.isOnline
  /\ pc = "done"
  /\ req.op = "status"
  /\ resp.status = 404
  /\ resp.body.processing = JNull

\* Two letters that differ at most in case.
SameLetter(c, d) ==
  \/ c = d
  \/ \E u \in {<<"h", "H">>, <<"t", "T">>, <<"p", "P">>, <<"s", "S">>, <<"o", "O">>} :
       {c, d} = {u[1], u[2]}

EqualIgnoringCase(a, b) == Len(a) = Len(b) /\ \A i \in 1..Len(a) : SameLetter(a[i], b[i])

IsScheme(p) == p = <<>> \/ EqualIgnoringCase(p, SchemeHttp) \/ EqualIgnoringCase(p, SchemeHttps)

IsHost(h) == Len(h) > 0 /\ \A i \in 1..Len(h) : h[i] \notin {"/", ":"}

\* The hosts a reference names: what is left of it without an http/https
\* scheme in front and without a slash behind.
HostsOf(ref) ==
  {SubSeq(ref, c[1] + 1, c[2]) :
     c \in {c \in {0, Len(SchemeHttp), Len(SchemeHttps)} \X {Len(ref) - 1, Len(ref)} :
              /\ c[1] <= c[2]
              /\ IsScheme(SubSeq(ref, 1, c[1]))
              /\ SubSeq(ref, c[2] + 1, Len(ref)) \in {<<>>, Slash}
              /\ IsHost(SubSeq(ref, c[1] + 1, c[2]))}}

\* The two references differ only in the scheme, the trailing slash or case.
SameStore(a, b) == \E ha \in HostsOf(a) : \E hb \in HostsOf(b) : EqualIgnoringCase(ha, hb)

\* C3: for any two store references that differ only in the presence of a
\* leading http/https scheme, of a trailing slash, or in letter case, the
\* normalized identifier is the same, the credential store is queried under
\* the same key and the same credential comes back: whatever reference the
\* request carried, every reference of the same store normalizes to the key
\* that was queried and finds the row that was returned.
C3_SameStoreSameCredential ==
  lookup.done =>
    \A r \in ShopRefs :
      SameStore(req.body.shop.v, r) =>
        /\ normalizeShopDomain(r) = lookup.key
        /\ lookup.found \subseteq FindFirst(lookup.db, normalizeShopDomain(r))
        /\ lookup.found = {} => FindFirst(lookup.db, normalizeShopDomain(r)) = {}

Canonical(id) ==
  /\ \A i \in 1..Len(id) : id[i] \notin {"H", "T", "P", "S", "O"}
  /\ ~StartsWith(id, SchemeHttp)
  /\ ~StartsWith(id, SchemeHttps)
  /\ Len(id) = 0 \/ id[Len(id)] # "/"

\* C4: the identifier used for the credential lookup and for the GraphQL
\* endpoint URL is canonical for every store reference the handlers accept:
\* no upper-case letter, no leading http:// or https://, no trailing slash.
C4_CanonicalIdentifier ==
  /\ lookup.done => Canonical(lookup.key)
  /\ \A i \in 1..Len(calls) : calls[i].kind = "graphql" => Canonical(calls[i].url.host)

\* The answer to the invocation's GraphQL request (its first call) is in,
\* and it is an HTTP response with a JSON body.
Answered == Len(replies) >= 1 /\ replies[1].kind = "json"

\* The failure conditions of a GraphQL answer.
NonSuccessStatus(reply) == ~Ok(reply)
TopLevelErrors(reply) == Len(reply.errors) > 0
RootMissing(reply) == reply.root = Absent
HasUserErrors(reply) ==
  reply.root # Absent /\ reply.root.hasUserErrors /\ Len(reply.root.userErrors) > 0

FailureConditions(reply) ==
  {c \in {"status", "errors", "root", "userErrors"} :
     \/ c = "status" /\ NonSuccessStatus(reply)
     \/ c = "errors" /\ TopLevelErrors(reply)
     \/ c = "root" /\ RootMissing(reply)
     \/ c = "userErrors" /\ HasUserErrors(reply)}

\* The failure the classification order asks for.
ExpectedFailure(reply) ==
  IF NonSuccessStatus(reply) THEN "transport"
  ELSE IF TopLevelErrors(reply) \/ RootMissing(reply) THEN "api"
  ELSE IF HasUserErrors(reply) THEN "domain"
  ELSE "none"

RootMissingTexts ==
  {<<Lit(r), Lit(" missing in response")>> : r \in {"themeCreate", "themeDelete", "themeFilesUpsert"}}
  \cup {Msg("stagedUploadsCreate missing in response")}

\* The failure a response reports, read off its status and body.
ReportedFailure(reply, r) ==
  IF r.status = 200 THEN "none"
  ELSE IF "userErrors" \in DOMAIN r.body \/ r.body.error[1] = Lit("Failed to create staged upload: ")
    THEN "domain"
  ELSE IF r.status = reply.status \/ r.body.error[1] = Lit("stagedUploadsCreate failed: ")
    THEN "transport"
  ELSE IF \/ r.body.error \in RootMissingTexts
          \/ r.body.error[1] = Lit("Failed to create staged upload (top-level errors): ")
          \/ TopLevelErrors(reply) /\ r.body.error = <<Str(reply.errors[1].message)>>
    THEN "api"
  ELSE "other"

\* C5: when more than one failure condition holds at once in the answer to
\* the GraphQL request (non-success status, top-level errors, missing root
\* field, non-empty userErrors), the failure the response reports is the
\* first in the order transport, API, domain.
C5_ClassificationOrder ==
  pc = "done" /\ Answered /\ Cardinality(FailureConditions(replies[1])) > 1 =>
    ReportedFailure(replies[1], resp) = ExpectedFailure(replies[1])

\* C6: when the GraphQL endpoint answers with a success status and a JSON
\* body carrying a non-empty top-level errors array, the response is a
\* failure (never status 200) whose error is the first error's message.
C6_TopLevelErrorsFail ==
  pc = "done" /\ Answered /\ Ok(replies[1]) /\ TopLevelErrors(replies[1]) =>
    /\ resp.status # 200
    /\ resp.body.error = <<Str(replies[1].errors[1].message)>>

MutationOps == {"create", "delete", "update"}

\* The mutation's answer is a success status whose root field carries userErrors.
UserErrorsAnswered ==
  /\ req.op \in MutationOps
  /\ Answered
  /\ Ok(replies[1])
  /\ HasUserErrors(replies[1])

\* C7: for create, delete and upsert files, when the answer has a success
\* status and its root field carries a non-empty userErrors list, the
\* response has status 400, its userErrors field is that very list (same
\* entries, same order, field and message untouched) and it carries an error
\* summary.
C7_UserErrorsVerbatim ==
  UserErrorsAnswered =>
    /\ pc = "done"
    /\ resp.status = 400
    /\ "userErrors" \in DOMAIN resp.body
    /\ resp.body.userErrors = replies[1].root.userErrors
    /\ "error" \in DOMAIN resp.body
    /\ resp.body.error # <<>>

C7_Witness ==
  /\ UserErrorsAnswered
  /\ req.op = "delete"
  /\ Len(replies[1].root.userErrors) > 1
  /\ TopLevelErrors(replies[1])
  /\ resp.status = 400

\* The stage request of an upload was answered with a success status, no
\* top-level errors and the root field.
StageAnswered ==
  /\ req.op = "upload"
  /\ Answered
  /\ Ok(replies[1])
  /\ ~TopLevelErrors(replies[1])
  /\ ~RootMissing(replies[1])

\* ... and with an empty userErrors list: the stage request succeeded.
StageSucceeded ==
  /\ StageAnswered
  /\ replies[1].root.hasUserErrors
  /\ replies[1].root.userErrors = <<>>

NoTransfer == \A i \in 1..Len(calls) : calls[i].kind # "upload"

\* C8: in upload file, when the stage request succeeds (success status, no
\* top-level errors, root field present, no userErrors) but returns an empty
\* stagedTargets list, the invocation fails with the dedicated error "Failed
\* to get staged upload target" and resourceUrl = null; a stage answer with
\* non-empty userErrors is reported with another error; in both cases the
\* transfer POST is never issued.
C8_EmptyTargetListFails ==
  /\ StageSucceeded /\ replies[1].root.payload = JArr(<<>>) =>
       /\ pc = "done"
       /\ resp.status # 200
       /\ resp.body.error = Msg("Failed to get staged upload target")
       /\ resp.body.resourceUrl = JNull
       /\ NoTransfer
       /\ Len(calls) = 1
  /\ StageAnswered /\ HasUserErrors(replies[1]) =>
       /\ pc = "done"
       /\ resp.status # 200
       /\ resp.body.error # Msg("Failed to get staged upload target")
       /\ NoTransfer
       /\ Len(calls) = 1

C8_Witness ==
  /\ StageSucceeded
  /\ replies[1].root.payload = JArr(<<>>)
  /\ pc = "done"
  /\ resp.status = 500

\* The stage request succeeded with at least one target and the transfer was
\* answered with a success status.
UploadSucceeded ==
  /\ StageSucceeded
  /\ replies[1].root.payload.t = "arr"
  /\ Len(replies[1].root.payload.v) >= 1
  /\ Len(replies) = 2
  /\ replies[2].kind = "text"
  /\ Ok(replies[2])

\* C9: in upload file, with a valid credential, a stage request that succeeds
\* with at least one target and a transfer answered with a success status, the
\* response has status 200 and the resourceUrl of the first staged target,
\* and exactly one stage request and one transfer were issued, in that order.
C9_UploadReturnsFirstResourceUrl ==
  UploadSucceeded =>
    /\ pc = "done"
    /\ resp.status = 200
    /\ resp.body.resourceUrl = JStr(replies[1].root.payload.v[1].resourceUrl)
    /\ Len(calls) = 2
    /\ calls[1].kind = "graphql" /\ calls[1].root = "stagedUploadsCreate"
    /\ calls[2].kind = "upload" /\ calls[2].url = replies[1].root.payload.v[1].url

C9_Witness ==
  /\ UploadSucceeded
  /\ Len(replies[1].root.payload.v) > 1
  /\ pc = "done"
  /\ resp.status = 200
  /\ lookup.found # {}

\* An entry of files that lacks a non-empty filename, or lacks content.
LacksFilenameOrContent(file) ==
  \/ file.t # "obj"
  \/ file.v.filename.t # "str"
  \/ file.v.filename.v = <<>>
  \/ file.v.content = Absent

\* The files value of an update request is an empty list, no list, or a list
\* with an entry that lacks a non-empty filename or lacks content.
BadFiles(files) ==
  \/ files.t # "arr"
  \/ Len(files.v) = 0
  \/ \E i \in 1..Len(files.v) : LacksFilenameOrContent(files.v[i])

\* C10: upsert theme files rejects with status 400, before any credential
\* lookup and any network call, every (POST, JSON) request whose files value
\* is an empty list, is not a list, or contains an entry that lacks a
\* non-empty filename or lacks content.
C10_BadFilesRejected ==
  req.op = "update" /\ req.method = "POST" /\ req.isJson /\ BadFiles(req.body.files) =>
    /\ pc = "done"
    /\ resp.status = 400
    /\ ~lookup.done
    /\ calls = <<>>

\* The request was parsed: a POST whose body is JSON.
Parsed == req.method = "POST" /\ req.isJson

MissingOrEmpty(x) == x = Absent \/ x = JStr(<<>>)

\* Nothing was looked up and nothing was sent.
NothingAttempted == ~lookup.done /\ calls = <<>> /\ replies = <<>>

Resolved ==
  /\ lookup.done
  /\ lookup.found # {}
  /\ ~SelectedExpired
  /\ session # NoSession

\* The one GraphQL call was answered with a success status, the root field
\* and an empty userErrors list.
CleanAnswer ==
  /\ Len(calls) = 1
  /\ calls[1].kind = "graphql"
  /\ Len(replies) = 1
  /\ Answered
  /\ Ok(replies[1])
  /\ ~RootMissing(replies[1])
  /\ replies[1].root.hasUserErrors
  /\ replies[1].root.userErrors = <<>>

\* The 200 body carries what the remote returned, field by field.
PayloadCarried(op, payload, body) ==
  CASE op = "create" ->
         IF payload.t = "obj"
           THEN /\ DOMAIN body = {"theme"}
                /\ body.theme.v.id = payload.v.id
                /\ body.theme.v.name = payload.v.name
           ELSE DOMAIN body = {}
    [] op = "delete" ->
         IF payload # Absent
           THEN DOMAIN body = {"deletedThemeId"} /\ body.deletedThemeId = payload
           ELSE DOMAIN body = {}
    [] op = "update" ->
         IF payload # Absent
           THEN /\ DOMAIN body = {"upsertedFiles"}
                /\ Len(body.upsertedFiles.v) = Len(payload.v)
                /\ \A i \in 1..Len(payload.v) :
                     body.upsertedFiles.v[i].filename = payload.v[i].filename
           ELSE DOMAIN body = {}

\* C12: for create, delete and upsert files the response has status 200 if
\* and only if the credential resolved, the single GraphQL call came back
\* with a success status, the root field is present and its userErrors list
\* is empty; the 200 body then carries the remote payload unchanged (theme
\* id and name, deletedThemeId, the upserted filenames in order).
C12_SuccessIffCleanAnswer ==
  req.op \in MutationOps /\ pc = "done" =>
    /\ resp.status = 200 <=> Resolved /\ CleanAnswer
    /\ resp.status = 200 => PayloadCarried(req.op, replies[1].root.payload, resp.body)

C12_Witness ==
  /\ req.op = "update"
  /\ pc = "done"
  /\ resp.status = 200
  /\ "upsertedFiles" \in DOMAIN resp.body
  /\ Len(resp.body.upsertedFiles.v) = 2

\* C13: for get processing status, a response whose processing is null is a
\* failure (it carries an error string and its status is not 200), and a
\* status-200 response carries a boolean processing value.
C13_NullProcessingIsFailure ==
  req.op \in StatusOps /\ pc = "done" =>
    /\ "processing" \in DOMAIN resp.body /\ resp.body.processing = JNull =>
         "error" \in DOMAIN resp.body /\ resp.status # 200
    /\ resp.status = 200 =>
         "processing" \in DOMAIN resp.body /\ resp.body.processing.t = "bool"

\* The routes that export an action, and the fields each requires.
ActionOps == {"create", "delete", "update", "status", "legacy", "upload"}

RequiredFields(op) ==
  CASE op = "create" -> {"shop", "source", "name"}
    [] op = "delete" -> {"shop", "themeId"}
    [] op = "update" -> {"shop", "themeId", "files"}
    [] op \in {"status", "legacy"} -> {"shop", "themeId"}
    [] op = "upload" -> {"shop", "fileData"}

MappedStatuses == {200, 400, 401, 404, 405, 500}

\* The last answer is a transport failure: the call threw, or came back with
\* a status that is no success.
TransportFailed ==
  /\ Len(replies) >= 1
  /\ LET last == replies[Len(replies)] IN
       last.kind = "throws" \/ last.status \notin 200..299

\* C15: every response has the status of the mapping: 400 for a caller input
\* error, 404 for a missing credential, 401 for an expired one, 400 for
\* remote user errors, 500 for a transport or unexpected failure (a
\* non-success status of the GraphQL endpoint and a thrown network exception
\* included), 200 for success, and 405 for a wrong method; no other status.
C15_StatusMapping ==
  pc = "done" =>
    /\ resp.status \in MappedStatuses
    /\ resp.status = 405 <=> req.op \in ActionOps /\ req.method # "POST"
    /\ ~lookup.done /\ ~(req.op \in ActionOps /\ req.method # "POST") =>
         \/ resp.status = 400
         \/ resp.status = 500 /\ resp.body.error = Msg("Failed to update theme files")
    /\ lookup.done /\ lookup.found = {} => resp.status = 404
    /\ SelectedExpired => resp.status = 401
    /\ TransportFailed => resp.status = 500
    /\ Answered /\ Ok(replies[1]) /\ ~TopLevelErrors(replies[1]) /\ HasUserErrors(replies[1]) =>
         resp.status = 400

\* C16: an invocation issues at most two network calls: create, delete,
\* upsert files and get status at most one GraphQL call; upload at most one
\* stage request followed by at most one transfer; every call has at most
\* one answer and no call is made again after a failure.
C16_AtMostTwoCalls ==
  /\ Len(calls) <= 2
  /\ Len(replies) <= Len(calls)
  /\ req.op # "upload" => Len(calls) <= 1 /\ \A i \in 1..Len(calls) : calls[i].kind = "graphql"
  /\ req.op = "upload" =>
       /\ Len(calls) >= 1 => calls[1].kind = "graphql" /\ calls[1].root = "stagedUploadsCreate"
       /\ Len(calls) = 2 =>
            /\ calls[2].kind = "upload"
            /\ Len(replies) >= 1 /\ StageFailure(replies[1]) = NoResponse
  /\ pc = "done" => Len(replies) = Len(calls)

C16_Witness ==
  /\ req.op = "upload"
  /\ pc = "done"
  /\ Len(calls) = 2
  /\ Len(replies) = 2
  /\ replies[2].kind = "throws"
  /\ resp.status = 500

\* The transfer of an upload has left: the second call of the invocation.
TransferSent == req.op = "upload" /\ Len(calls) = 2 /\ calls[2].kind = "upload"

\* C17: the form posted to the staged target's url holds every {name, value}
\* pair of the target's parameters, in the order the remote returned them,
\* and then the binary payload as its last field, named "file": no
\* parameter is dropped, duplicated, reordered or placed after the file.
C17_FormParametersThenFile ==
  TransferSent =>
    LET target == replies[1].root.payload.v[1]
        form == calls[2].form
        n == Len(target.parameters)
    IN /\ calls[2].url = target.url
       /\ Len(form) = n + 1
       /\ \A i \in 1..n :
            /\ form[i].name = target.parameters[i].name
            /\ form[i].value = target.parameters[i].value
       /\ form[n + 1].name = <<"file">>
       /\ "blob" \in DOMAIN form[n + 1].value
       /\ \A i \in 1..n : form[i].name # <<"file">>

C17_Witness ==
  /\ TransferSent
  /\ Len(calls[2].form) >= 3
  /\ calls[2].form[1].name # calls[2].form[2].name
  /\ pc = "transfer"

\* The transfer was answered with a status that is no success.
TransferRefused ==
  /\ TransferSent
  /\ Len(replies) = 2
  /\ replies[2].kind = "text"
  /\ replies[2].status \notin 200..299

\* The parts of an error string.
PartsOf(error) == {error[i] : i \in 1..Len(error)}

\* C18: when the transfer is answered with a non-success status, the upload
\* ends as a failure (status not 200, resourceUrl = null) whose error carries
\* the transfer's status and response body; no further call is made and the
\* staged resourceUrl is not handed to the caller.
C18_TransferFailureIsTerminal ==
  TransferRefused =>
    /\ pc = "done"
    /\ resp.status # 200
    /\ resp.body.resourceUrl = JNull
    /\ Num(replies[2].status) \in PartsOf(resp.body.error)
    /\ Str(replies[2].text) \in PartsOf(resp.body.error)
    /\ Len(calls) = 2

C18_Witness ==
  /\ TransferRefused
  /\ replies[2].status = 403
  /\ resp.status = 500

\* A network call of the invocation threw.
CallThrew == \E i \in 1..Len(replies) : replies[i].kind = "throws"

\* C19: when a network call throws (connection failure, timeout, abort), the
\* invocation answers with status 500 and the thrown cause's message as its
\* error; it makes no further network call and the exception stays inside
\* the handler, which returns a response.
C19_ThrownCallIs500 ==
  CallThrew =>
    /\ pc = "done"
    /\ resp.status = 500
    /\ resp.body.error = <<Str(replies[Len(replies)].message)>>
    /\ replies[Len(replies)].kind = "throws"
    /\ Len(calls) = Len(replies)

C19_Witness ==
  /\ CallThrew
  /\ req.op = "create"
  /\ pc = "done"
  /\ resp.status = 500

\* The GraphQL calls that name a theme, and the variable that names it.
ThemeVariable(call) ==
  CASE call.root \in {"themeDelete", "theme"} -> call.variables.id
    [] call.root = "themeFilesUpsert" -> call.variables.themeId

\* C20: for delete theme, upsert theme files and get processing status the
\* theme identifier sent as GraphQL variable is the string
\* "gid://shopify/OnlineStoreTheme/" followed by the id the caller supplied,
\* whatever that id; the raw id is never sent as it came.
C20_ThemeGidSent ==
  \A i \in 1..Len(calls) :
    calls[i].kind = "graphql" /\ calls[i].root \in {"themeDelete", "theme", "themeFilesUpsert"} =>
      /\ ThemeVariable(calls[i]) = <<"gid://shopify/OnlineStoreTheme/">> \o req.body.themeId.v
      /\ ThemeVariable(calls[i]) # req.body.themeId.v

C20_Witness ==
  /\ req.op = "delete"
  /\ Len(calls) = 1
  /\ req.body.themeId = JStr(<<"7">>)
  /\ calls[1].variables.id = <<"gid://shopify/OnlineStoreTheme/", "7">>

\* An update that renames: shop, themeId and a name, and no files list.
RenameRequest ==
  /\ req.op = "update"
  /\ Parsed
  /\ Truthy(req.body.shop)
  /\ Truthy(req.body.themeId)
  /\ Truthy(req.body.name)
  /\ req.body.files = Absent

\* C21: the update endpoint accepts a request carrying shop, themeId and a
\* name without a files list: it is not rejected as an input error before
\* the credential lookup, and the call it issues is the rename (themeUpdate)
\* with the themeId translated to the global id.
C21_RenameAccepted ==
  RenameRequest =>
    /\ pc = "done" => lookup.done
    /\ \A i \in 1..Len(calls) :
         /\ calls[i].root = "themeUpdate"
         /\ calls[i].variables.id = <<"gid://shopify/OnlineStoreTheme/">> \o req.body.themeId.v

\* A GraphQL request leaves in this step.
GraphqlSent ==
  /\ Len(calls') = Len(calls) + 1
  /\ calls'[Len(calls')].kind = "graphql"

\* The row is not expired at time t, by the resolver's own measure.
Usable(s, t) == \A e \in s.expires : ~(e < t)

\* C22: at the moment a GraphQL request carrying an access token is sent,
\* the credential the token was taken from is still usable (no expiry, or
\* an expiry that has not passed at that moment), also when time advances
\* between the resolver's check and the send.
C22_TokenUsableWhenSent ==
  [][GraphqlSent => \A s \in lookup.found : Usable(s, now)]_vars

\* The table read by verifyShopSession held a usable offline session of the store.
UsableSessionStored ==
  /\ lookup.done
  /\ req.op \notin LegacyOps
  /\ \E s \in lookup.db : s.shop = lookup.key /\ ~s.isOnline /\ Usable(s, lookup.at)

\* C23: whenever the store holds at least one offline credential of the
\* normalized store that is usable, verifyShopSession does not fail with
\* Expired: it succeeds and returns the token of a usable credential.
C23_UsableCredentialResolves ==
  UsableSessionStored =>
    /\ ~(pc = "done" /\ resp.status = 401)
    /\ \E s \in lookup.found : Usable(s, lookup.at) /\ session.accessToken = s.accessToken

\* What holds of the reads in every state: at most one per invocation, one
\* before any call, none only for a request rejected at validation.
ReadOnce ==
  /\ lookup.reads <= 1
  /\ lookup.done <=> lookup.reads = 1
  /\ pc \in {"send", "wait", "transfer"} \/ calls # <<>> => lookup.reads = 1
  /\ pc = "done" /\ lookup.reads = 0 => resp.status \in {400, 405, 500} /\ calls = <<>>

\* What holds of every step: a handler step leaves the table as it is, and a
\* read returns what the table holds at that moment.
ReadThrough ==
  /\ db' # db => pc = "idle" /\ pc' = "idle"
  /\ lookup'.reads > lookup.reads =>
       /\ calls = <<>>
       /\ lookup'.db = db
       /\ lookup'.found \subseteq FindFirst(db, lookup'.key)
       /\ lookup'.found = {} <=> FindFirst(db, lookup'.key) = {}

\* C24: every invocation that passes input validation reads the credential
\* store exactly once, before its first network call, and never writes to
\* it; nothing is kept from one invocation to the next, so a read returns
\* the table as it is when the read is made.
C24_ReadThroughOnce == []ReadOnce /\ [][ReadThrough]_vars

C24_Witness ==
  /\ pc = "wait"
  /\ lookup.reads = 1
  /\ lookup.db = db
  /\ lookup.found # {}
  /\ Len(calls) = 1

\* The stage answer allows the transfer: success status, JSON body without
\* top-level errors, the root field, an empty userErrors list and a target.
StageClean(reply) ==
  /\ reply.kind = "json"
  /\ reply.status \in 200..299
  /\ reply.errors = <<>>
  /\ reply.root # Absent
  /\ reply.root.hasUserErrors
  /\ reply.root.userErrors = <<>>
  /\ reply.root.payload.t = "arr"
  /\ Len(reply.root.payload.v) > 0

\* C26: in upload file the transfer is issued only after the stage request
\* of the same invocation returned a success status, no top-level errors,
\* the stagedUploadsCreate root field, an empty userErrors list and a
\* non-empty target list; when one of these fails, the invocation ends
\* without a transfer.
C26_TransferOnlyAfterCleanStage ==
  req.op = "upload" =>
    /\ \A i \in 1..Len(calls) :
         calls[i].kind = "upload" => i = 2 /\ Len(replies) >= 1 /\ StageClean(replies[1])
    /\ Len(replies) >= 1 /\ ~StageClean(replies[1]) =>
         pc = "done" /\ resp.status # 200 /\ NoTransfer

C26_Witness ==
  /\ req.op = "upload"
  /\ pc = "transfer"
  /\ Len(calls) = 2
  /\ StageClean(replies[1])

\* An error string that is not empty.
NonEmptyError(body) ==
  /\ "error" \in DOMAIN body
  /\ Len(body.error) > 0
  /\ \A i \in 1..Len(body.error) : body.error[i] # Str(<<>>)

\* A response is there exactly when the invocation is done, and a response
\* whose status is not 200 carries an error.
ResponseWellFormed ==
  /\ pc = "done" <=> resp # NoResponse
  /\ pc = "done" /\ resp.status # 200 => NonEmptyError(resp.body)

\* The response of an invocation, once given, is not replaced.
OneResponse == resp # NoResponse => resp' = resp \/ (pc = "done" /\ pc' = "idle")

\* The invocation is under way.
Running == pc \notin {"idle", "done"}

\* How far a handler has come.
Rank(l) ==
  CASE l = "idle" -> 0
    [] l \in {"verify", "legacyLookup"} -> 1
    [] l = "send" -> 2
    [] l = "wait" -> 3
    [] l = "transfer" -> 4
    [] l = "done" -> 5

\* A running invocation has a step to take whatever the database and the
\* remote answer, and each of its steps brings it closer to its response.
NeverStuck == Running => ENABLED HandlerStep
Advances == Running /\ pc' # pc => Rank(pc') > Rank(pc)

\* C27: every invocation ends with exactly one response, whatever the
\* remote answers (non-success status, body that is no JSON, unexpected
\* payload shape, thrown exception): a running handler always has a next
\* step, every step brings it closer to its response, and the response once
\* given is not replaced; every response whose status is not 200 carries a
\* non-empty error string.
C27_AlwaysOneResponse ==
  /\ [](ResponseWellFormed /\ NeverStuck)
  /\ [][OneResponse /\ Advances]_vars

C27_Witness ==
  /\ req.op = "status"
  /\ pc = "done"
  /\ Len(replies) = 1
  /\ replies[1].kind = "text"
  /\ resp.status = 500
  /\ NonEmptyError(resp.body)

\* What an invocation read of the credential store: whether it read, the
\* row that came back, and whether that row had expired.
CredentialRead(inv) ==
  [done |-> inv.lookup.done, found |-> inv.lookup.found,
   expired |-> \E s \in inv.lookup.found : \E e \in s.expires : e < inv.lookup.at]

\* Every transfer of the invocation went to the first target of its own
\* stage answer.
OwnTarget(inv) ==
  \A i \in 1..Len(inv.calls) :
    inv.calls[i].kind = "upload" =>
      /\ Len(inv.replies) >= 1
      /\ inv.calls[i].url = inv.replies[1].root.payload.v[1].url

Supplied(r) == [shop |-> r.body.shop, themeId |-> r.body.themeId]

\* Two finished status invocations, `a` through one endpoint and `b` through
\* another, with the same credential read and the same remote answers.
Comparable(a, b) ==
  /\ a.pc = "done"
  /\ b.pc = "done"
  /\ CredentialRead(a) = CredentialRead(b)
  /\ a.replies = b.replies

\* The current status endpoint against the legacy action: the same request.
SameActionRequest(a, b) ==
  /\ a.req.op = "status"
  /\ b.req.op = "legacy"
  /\ a.req.method = b.req.method
  /\ a.req.isJson = b.req.isJson
  /\ Supplied(a.req) = Supplied(b.req)

\* The legacy loader against the legacy action: the same themeId and shop.
SameLoaderRequest(a, b) ==
  /\ a.req.op = "legacyGet"
  /\ b.req.op = "legacy"
  /\ b.req.method = "POST"
  /\ b.req.isJson
  /\ Supplied(a.req) = Supplied(b.req)

SameOutcome(a, b) == a.calls = b.calls /\ a.resp = b.resp

Pairs == {<<Locals, other>>, <<other, Locals>>}

====
